---- MODULE Spec2Model ----
(***************************************************************************)
(* Model of app.py (GLF ID card generator): the cover-fit cropper, the     *)
(* font-size search, the raster text fallback, the script classifier and   *)
(* the "Generate ID Card" handler.                                         *)
(*                                                                         *)
(* Python's "/" on ints and int*float are IEEE-754 binary64 operations, so *)
(* the arithmetic of fit_image_to_frame and estimate_font_size_pil is      *)
(* modelled with correctly rounded 53-bit significands, held in 15-bit     *)
(* limbs so that no intermediate value exceeds 32 bits.                    *)
(***************************************************************************)
EXTENDS Integers, Sequences, FiniteSets, TLC

(***************************************************************************)
(* Bounds of the model.                                                    *)
(***************************************************************************)
MaxImg == 9
MaxFrame == 9
MaxApply == 2
MaxFont == 3
MaxTextW == 3
MaxTextH == 2
MaxOffset == 2
MaxTextLen == 2
MaxInputLen == 2

(***************************************************************************)
(* Unsigned multi-limb integers (little-endian).                           *)
(***************************************************************************)
MantBits == 53
LimbBits == 15
NLimbs == 5
Radix == 2^LimbBits

BigZero == [i \in 1..NLimbs |-> 0]

BigFromInt(n) ==
    [i \in 1..NLimbs |->
        IF i = 1 THEN n % Radix
        ELSE IF i = 2 THEN (n \div Radix) % Radix
        ELSE IF i = 3 THEN n \div (Radix * Radix)
        ELSE 0]

BigOne == BigFromInt(1)

BigPow2(n) ==
    [i \in 1..NLimbs |-> IF i = (n \div LimbBits) + 1 THEN 2^(n % LimbBits) ELSE 0]

RECURSIVE Carry(_, _, _)
Carry(raw, i, c) ==
    IF i > NLimbs THEN <<>>
    ELSE LET v == raw[i] + c
         IN  <<v % Radix>> \o Carry(raw, i + 1, v \div Radix)

BigMulSmall(a, s) == Carry([i \in 1..NLimbs |-> a[i] * s], 1, 0)

BigAddSmall(a, s) == Carry([i \in 1..NLimbs |-> IF i = 1 THEN a[i] + s ELSE a[i]], 1, 0)

RECURSIVE BigCmpFrom(_, _, _)
BigCmpFrom(a, b, i) ==
    IF i = 0 THEN 0
    ELSE IF a[i] > b[i] THEN 1
    ELSE IF a[i] < b[i] THEN -1
    ELSE BigCmpFrom(a, b, i - 1)

BigCmp(a, b) == BigCmpFrom(a, b, NLimbs)

RECURSIVE Borrow(_, _, _, _)
Borrow(a, b, i, c) ==
    IF i > NLimbs THEN <<>>
    ELSE LET v == a[i] - b[i] - c
         IN  IF v < 0 THEN <<v + Radix>> \o Borrow(a, b, i + 1, 1)
             ELSE <<v>> \o Borrow(a, b, i + 1, 0)

BigSub(a, b) == Borrow(a, b, 1, 0)

BigLimb(a, i) == IF i >= 1 /\ i <= NLimbs THEN a[i] ELSE 0

BigShr(a, n) ==
    LET q == n \div LimbBits
        j == n % LimbBits
    IN  [i \in 1..NLimbs |->
            (BigLimb(a, i + q) \div 2^j)
            + (BigLimb(a, i + q + 1) % 2^j) * 2^(LimbBits - j)]

BigShl(a, n) ==
    LET q == n \div LimbBits
        j == n % LimbBits
    IN  [i \in 1..NLimbs |->
            (BigLimb(a, i - q) % 2^(LimbBits - j)) * 2^j
            + (BigLimb(a, i - q - 1) \div 2^(LimbBits - j))]

BigToInt(a) == a[1] + Radix * a[2]

RECURSIVE BitLength(_)
BitLength(n) == IF n = 0 THEN 0 ELSE 1 + BitLength(n \div 2)

(***************************************************************************)
(* binary64 values x = m * 2^e with 2^52 <= m < 2^53, or zero (m = 0).     *)
(* Every operation returns the exact result rounded to nearest, ties to    *)
(* even: FRound takes the truncated significand m of a value in            *)
(* [2^t, 2^(t+1)) and whether the discarded part rounds it up.             *)
(***************************************************************************)
FZero == [m |-> BigZero, e |-> 0]

FIsZero(x) == x.m = BigZero

TopBits == (MantBits - 1) % LimbBits
FullLimbs == (MantBits - 1) \div LimbBits

FRound(m, t, up) ==
    LET m1 == IF up THEN BigAddSmall(m, 1) ELSE m
    IN  IF BigCmp(m1, BigPow2(MantBits)) = 0
        THEN [m |-> BigPow2(MantBits - 1), e |-> t + 1 - (MantBits - 1)]
        ELSE [m |-> m1, e |-> t - (MantBits - 1)]

\* scale n / d into [1, 2): the result <<n', d', t>> has n/d = (n'/d') * 2^t
RECURSIVE ScaleII(_, _, _)
ScaleII(n, d, t) ==
    IF n < d THEN ScaleII(2 * n, d, t - 1)
    ELSE IF n >= 2 * d THEN ScaleII(n, 2 * d, t + 1)
    ELSE <<n, d, t>>

\* the limbs i, i-1, ..., 1 of the quotient of r / d (r < d), and the remainder
RECURSIVE DivLimbsII(_, _, _)
DivLimbsII(r, d, i) ==
    IF i = 0 THEN <<<<>>, r>>
    ELSE LET x    == r * Radix
             rest == DivLimbsII(x % d, d, i - 1)
         IN  <<Append(rest[1], x \div d), rest[2]>>

\* int / int  (true division of two Python ints below 2^15)
FDivII(a, b) ==
    IF a = 0 THEN FZero
    ELSE LET sc  == ScaleII(a, b, 0)
             n   == sc[1]
             d   == sc[2]
             x   == (n - d) * 2^TopBits
             low == DivLimbsII(x % d, d, FullLimbs)
             m   == [i \in 1..NLimbs |->
                        IF i <= FullLimbs THEN low[1][i]
                        ELSE IF i = FullLimbs + 1 THEN 2^TopBits + (x \div d)
                        ELSE 0]
             r   == low[2]
         IN  FRound(m, sc[3], 2 * r > d \/ (2 * r = d /\ m[1] % 2 = 1))

\* int * float  (int below 2^15)
FMulIF(n, x) ==
    IF n = 0 \/ FIsZero(x) THEN FZero
    ELSE LET P    == BigMulSmall(x.m, n)
             bl   == BitLength(n)
             k    == IF BigCmp(P, BigPow2(MantBits - 1 + bl)) >= 0 THEN bl ELSE bl - 1
             m    == BigShr(P, k)
             rem  == P[1] % 2^k
             half == IF k = 0 THEN 1 ELSE 2^(k - 1)
             up   == k > 0 /\ (rem > half \/ (rem = half /\ m[1] % 2 = 1))
             q    == FRound(m, MantBits - 1 + k, up)
         IN  [m |-> q.m, e |-> q.e + x.e]

\* floor(r * 2^k / D) and the remainder, for r < D, 2^52 <= D < 2^53, k <= 15
RECURSIVE QuotFix(_, _, _)
QuotFix(q, rem, D) ==
    IF BigCmp(rem, D) >= 0 THEN QuotFix(q + 1, BigSub(rem, D), D)
    ELSE <<q, rem>>

QuotDigit(r, D, k) ==
    LET R    == BigMulSmall(r, 2^k)
        Rhi  == BigToInt(BigShr(R, MantBits - LimbBits))
        Dhi  == BigToInt(BigShr(D, MantBits - LimbBits))
        qest == Rhi \div (Dhi + 1)
    IN  QuotFix(qest, BigSub(R, BigMulSmall(D, qest)), D)

RECURSIVE DivLimbsIF(_, _, _)
DivLimbsIF(r, D, i) ==
    IF i = 0 THEN <<<<>>, r>>
    ELSE LET qd   == QuotDigit(r, D, LimbBits)
             rest == DivLimbsIF(qd[2], D, i - 1)
         IN  <<Append(rest[1], qd[1]), rest[2]>>

\* int / float  (int below 2^15, float non-zero)
FDivIF(n, x) ==
    IF n = 0 THEN FZero
    ELSE LET D   == x.m
             s0  == MantBits - BitLength(n)
             N0  == BigShl(BigFromInt(n), s0)
             lt  == BigCmp(N0, D) < 0
             N1  == IF lt THEN BigMulSmall(N0, 2) ELSE N0
             s   == IF lt THEN s0 + 1 ELSE s0
             top == QuotDigit(BigSub(N1, D), D, TopBits)
             low == DivLimbsIF(top[2], D, FullLimbs)
             m   == [i \in 1..NLimbs |->
                        IF i <= FullLimbs THEN low[1][i]
                        ELSE IF i = FullLimbs + 1 THEN 2^TopBits + top[1]
                        ELSE 0]
             c   == BigCmp(BigMulSmall(low[2], 2), D)
             q   == FRound(m, -s, c > 0 \/ (c = 0 /\ m[1] % 2 = 1))
         IN  [m |-> q.m, e |-> q.e - x.e]

\* x > y on non-negative values
FGreater(x, y) ==
    IF FIsZero(x) THEN FALSE
    ELSE IF FIsZero(y) THEN TRUE
    ELSE IF x.e # y.e THEN x.e > y.e
    ELSE BigCmp(x.m, y.m) > 0

\* int(round(x)) for a non-negative value: the nearest integer, halves upward
FRoundNearest(x) ==
    IF FIsZero(x) \/ -x.e > MantBits THEN 0
    ELSE BigToInt(BigShr(x.m, -x.e)) + (BigShr(x.m, -x.e - 1)[1] % 2)

\* int(x): truncation toward zero of a non-negative value below 2^30
FTrunc(x) ==
    IF FIsZero(x) \/ -x.e > MantBits THEN 0
    ELSE BigToInt(BigShr(x.m, -x.e))

(***************************************************************************)
(* State.                                                                  *)
(*   img, frame         the image (its size) and the target frame          *)
(*   original, resized, crop   locals of the last fit_image_to_frame call  *)
(*   applied            number of fit_image_to_frame calls so far          *)
(*   oracle             what draw.textbbox measures for the text and font  *)
(*                      at each font size: width and height of the bbox    *)
(*   origin             offset of that bbox from the draw origin           *)
(*   allowed, max_font_size, min_font_size   arguments of the size search  *)
(*   epc, new_size, chosen   position, loop variable and return value of   *)
(*                      estimate_font_size_pil                            *)
(*   box, rendered      arguments and result of render_text_svg_to_image   *)
(*   uploaded_file, name_text, designation_text   the widgets' values      *)
(*   template_exists, CAIROSVG_AVAILABLE, metrics   the environment        *)
(*   gpc, field         position of the Generate handler                   *)
(*   name_font_path, desg_font_path, log, layers, ui   its locals, the     *)
(*                      image operations done, the composite, the page     *)
(***************************************************************************)
VARIABLES img, frame, applied, original, resized, crop,
          oracle, origin, allowed, max_font_size, min_font_size, epc, new_size, chosen,
          box, rendered,
          uploaded_file, name_text, designation_text,
          template_exists, CAIROSVG_AVAILABLE, metrics,
          gpc, field, name_font_path, desg_font_path, log, layers, ui

fitVars == <<img, frame, applied, original, resized, crop>>
fontVars == <<oracle, origin, allowed, max_font_size, min_font_size, epc, new_size, chosen>>
renderVars == <<box, rendered>>
inputVars == <<uploaded_file, name_text, designation_text>>
envVars == <<template_exists, CAIROSVG_AVAILABLE, metrics>>
genVars == <<gpc, field, name_font_path, desg_font_path, log, layers, ui>>
vars == <<fitVars, fontVars, renderVars, inputVars, envVars, genVars>>

NoFit ==
    /\ original = [w |-> 0, h |-> 0]
    /\ resized = [new_width |-> 0, new_height |-> 0]
    /\ crop = [left |-> 0, top |-> 0, right |-> 0, bottom |-> 0]

IdleFit ==
    /\ img = [w |-> 0, h |-> 0]
    /\ frame = [w |-> 0, h |-> 0]
    /\ applied = 0
    /\ NoFit

NoEstimate ==
    /\ new_size = 0
    /\ chosen = [size |-> 0, w |-> 0, h |-> 0]

IdleFont ==
    /\ oracle = <<>>
    /\ origin = [l |-> 0, t |-> 0]
    /\ allowed = [w |-> 0, h |-> 0]
    /\ max_font_size = 0
    /\ min_font_size = 0
    /\ epc = "idle"
    /\ NoEstimate

NoRender == rendered = [backend |-> "none"]

IdleRender ==
    /\ box = [w |-> 0, h |-> 0]
    /\ NoRender

\* uploaded_file is None
NoFile == [given |-> FALSE, valid |-> FALSE, w |-> 0, h |-> 0]

IdleInputs ==
    /\ uploaded_file = NoFile
    /\ name_text = <<>>
    /\ designation_text = <<>>

IdleEnv ==
    /\ template_exists = TRUE
    /\ CAIROSVG_AVAILABLE = TRUE
    /\ metrics = [adv |-> 0, bearing |-> 0]

IdleGen ==
    /\ gpc = "idle"
    /\ field = "none"
    /\ name_font_path = "unset"
    /\ desg_font_path = "unset"
    /\ log = <<>>
    /\ layers = <<>>
    /\ ui = <<>>

(***************************************************************************)
(* fit_image_to_frame(img, frame_w, frame_h)                               *)
(***************************************************************************)
fit_new_size(original_w, original_h, frame_w, frame_h) ==
    LET img_ratio   == FDivII(original_w, original_h)
        frame_ratio == FDivII(frame_w, frame_h)
    IN  IF FGreater(img_ratio, frame_ratio)
        THEN [new_width |-> FTrunc(FMulIF(frame_h, img_ratio)), new_height |-> frame_h]
        ELSE [new_width |-> frame_w, new_height |-> FTrunc(FDivIF(frame_w, img_ratio))]

fit_crop_box(ns, frame_w, frame_h) ==
    LET left == (ns.new_width - frame_w) \div 2
        top  == (ns.new_height - frame_h) \div 2
    IN  [left |-> left, top |-> top, right |-> left + frame_w, bottom |-> top + frame_h]

\* the call: resize to the new size, crop; Image.crop returns an image of
\* size (right - left) x (bottom - top) whatever part of the box is outside
fit_image_to_frame ==
    LET ns == fit_new_size(img.w, img.h, frame.w, frame.h)
        cb == fit_crop_box(ns, frame.w, frame.h)
    IN  /\ original' = img
        /\ resized' = ns
        /\ crop' = cb
        /\ img' = [w |-> cb.right - cb.left, h |-> cb.bottom - cb.top]
        /\ UNCHANGED frame

(***************************************************************************)
(* The cropper on its own: any image, any frame, applied to an image and   *)
(* then to its own output.                                                 *)
(***************************************************************************)
InitFit ==
    /\ img \in [w : 1..MaxImg, h : 1..MaxImg]
    /\ frame \in [w : 1..MaxFrame, h : 1..MaxFrame]
    /\ applied = 0
    /\ NoFit
    /\ IdleFont /\ IdleRender /\ IdleInputs /\ IdleEnv /\ IdleGen

FitApply ==
    /\ applied < MaxApply
    /\ fit_image_to_frame
    /\ applied' = applied + 1
    /\ UNCHANGED <<fontVars, renderVars, inputVars, envVars, genVars>>

NextFit == FitApply

SpecFit == InitFit /\ [][NextFit]_vars

\* the image is relatively wider than the frame (exact ratios)
Wider == original.w * frame.h > frame.w * original.h

\* C1: every fit returns an image of exactly the frame size, the resized image
\* covers the frame in both dimensions and the crop rectangle lies inside it
C1_CoverNoLetterbox ==
    applied >= 1 =>
        /\ img = frame
        /\ resized.new_width >= frame.w
        /\ resized.new_height >= frame.h
        /\ crop.left >= 0
        /\ crop.top >= 0
        /\ crop.right <= resized.new_width
        /\ crop.bottom <= resized.new_height

\* C7: applied to its own output (an image already of the frame size) the fit
\* resizes to exactly the frame size and crops [0, 0, w, h], so fit o fit = fit
C7_Idempotent ==
    (applied >= 1 /\ original = frame) =>
        /\ resized = [new_width |-> frame.w, new_height |-> frame.h]
        /\ crop = [left |-> 0, top |-> 0, right |-> frame.w, bottom |-> frame.h]

\* C9 as stated: the unmatched dimension is the exact quotient rounded to nearest
C9_RoundToNearest ==
    applied >= 1 =>
        IF Wider
        THEN 2 * (frame.h * original.w - resized.new_width * original.h) <= original.h
             /\ 2 * (resized.new_width * original.h - frame.h * original.w) <= original.h
        ELSE 2 * (frame.w * original.h - resized.new_height * original.w) <= original.w
             /\ 2 * (resized.new_height * original.w - frame.w * original.h) <= original.w

\* C9 amended: the unmatched dimension is the quotient truncated toward zero:
\* the floor of the exact quotient, or one less than it when it is a whole number
C9_Truncated ==
    applied >= 1 =>
        IF Wider
        THEN /\ resized.new_height = frame.h
             /\ \/ resized.new_width = (frame.h * original.w) \div original.h
                \/ /\ (frame.h * original.w) % original.h = 0
                   /\ resized.new_width = (frame.h * original.w) \div original.h - 1
        ELSE /\ resized.new_width = frame.w
             /\ \/ resized.new_height = (frame.w * original.h) \div original.w
                \/ /\ (frame.w * original.h) % original.w = 0
                   /\ resized.new_height = (frame.w * original.h) \div original.w - 1

\* a fit whose exact width has a fraction above one half, which truncation drops
C9_Witness ==
    /\ applied >= 1
    /\ Wider
    /\ 2 * ((frame.h * original.w) % original.h) > original.h
    /\ resized.new_width = (frame.h * original.w) \div original.h

(***************************************************************************)
(* estimate_font_size_pil(text, font_path, max_font_size, allowed_width,   *)
(*                        allowed_height, min_font_size)                   *)
(***************************************************************************)
Max(a, b) == IF a >= b THEN a ELSE b

FOne == FDivII(1, 1)

\* Python's min(x, y): x unless y < x
FMin(x, y) == IF FGreater(x, y) THEN y ELSE x

Fits(m) == m.w <= allowed.w /\ m.h <= allowed.h

\* lines 102-105: the size scaled by the binding constraint, not below the floor
EstCandidate(m) ==
    LET width_scale  == IF m.w > 0 THEN FDivII(allowed.w, m.w) ELSE FOne
        height_scale == IF m.h > 0 THEN FDivII(allowed.h, m.h) ELSE FOne
        scale        == FMin(width_scale, height_scale)
    IN  Max(min_font_size, FTrunc(FMulIF(max_font_size, scale)))

Return(size) == [size |-> size, w |-> oracle[size].w, h |-> oracle[size].h]

\* a search that starts one below the scaled candidate
EstStartBelowCandidate ==
    /\ epc = "start"
    /\ IF Fits(oracle[max_font_size])
       THEN /\ chosen' = Return(max_font_size)
            /\ epc' = "done"
            /\ UNCHANGED new_size
       ELSE /\ new_size' = EstCandidate(oracle[max_font_size]) - 1
            /\ epc' = "loop"
            /\ UNCHANGED chosen
    /\ UNCHANGED <<oracle, origin, allowed, max_font_size, min_font_size>>
    /\ UNCHANGED <<fitVars, renderVars, inputVars, envVars, genVars>>

\* lines 89-105: measure at the maximum size, return it or compute the candidate
EstStart ==
    /\ epc = "start"
    /\ IF Fits(oracle[max_font_size])
       THEN /\ chosen' = Return(max_font_size)
            /\ epc' = "done"
            /\ UNCHANGED new_size
       ELSE /\ new_size' = EstCandidate(oracle[max_font_size])
            /\ epc' = "loop"
            /\ UNCHANGED chosen
    /\ UNCHANGED <<oracle, origin, allowed, max_font_size, min_font_size>>
    /\ UNCHANGED <<fitVars, renderVars, inputVars, envVars, genVars>>

\* a loop that tests the height only
EstLoopHeightOnly ==
    /\ epc = "loop"
    /\ new_size >= min_font_size
    /\ IF oracle[new_size].h <= allowed.h
       THEN /\ chosen' = Return(new_size)
            /\ epc' = "done"
            /\ UNCHANGED new_size
       ELSE /\ new_size' = new_size - 1
            /\ UNCHANGED <<chosen, epc>>
    /\ UNCHANGED <<oracle, origin, allowed, max_font_size, min_font_size>>
    /\ UNCHANGED <<fitVars, renderVars, inputVars, envVars, genVars>>

\* lines 108-115: one iteration of the while loop
EstLoop ==
    /\ epc = "loop"
    /\ new_size >= min_font_size
    /\ IF Fits(oracle[new_size])
       THEN /\ chosen' = Return(new_size)
            /\ epc' = "done"
            /\ UNCHANGED new_size
       ELSE /\ new_size' = new_size - 1
            /\ UNCHANGED <<chosen, epc>>
    /\ UNCHANGED <<oracle, origin, allowed, max_font_size, min_font_size>>
    /\ UNCHANGED <<fitVars, renderVars, inputVars, envVars, genVars>>

\* lines 117-120: the loop ran out, return the floor
EstFallback ==
    /\ epc = "loop"
    /\ new_size < min_font_size
    /\ chosen' = Return(min_font_size)
    /\ epc' = "done"
    /\ UNCHANGED <<oracle, origin, allowed, max_font_size, min_font_size, new_size>>
    /\ UNCHANGED <<fitVars, renderVars, inputVars, envVars, genVars>>

(***************************************************************************)
(* The size search on its own: any measurer, any box, any floor <= maximum.*)
(***************************************************************************)
InitFont ==
    /\ min_font_size \in 1..MaxFont
    /\ max_font_size \in min_font_size..MaxFont
    /\ oracle \in [min_font_size..max_font_size -> [w : 0..MaxTextW, h : 0..MaxTextH]]
    /\ allowed \in [w : 1..MaxTextW, h : 1..MaxTextH]
    /\ origin = [l |-> 0, t |-> 0]
    /\ epc = "start"
    /\ NoEstimate
    /\ IdleFit /\ IdleRender /\ IdleInputs /\ IdleEnv /\ IdleGen

NextFont ==
    \/ EstStart
    \/ EstLoop
    \/ EstFallback

SpecFont == InitFont /\ [][NextFont]_vars

FitsAt(size) == Fits(oracle[size])

\* width and height are non-decreasing in the font size
Monotone ==
    \A s1, s2 \in DOMAIN oracle :
        s1 <= s2 => oracle[s1].w <= oracle[s2].w /\ oracle[s1].h <= oracle[s2].h

\* steps left before the return, at most: the loop variable only goes down
EstVariant ==
    IF epc = "start" THEN max_font_size + 3
    ELSE IF epc = "loop" THEN new_size - min_font_size + 2
    ELSE 0

\* C2: the search terminates (until it returns it is at a step that can run,
\* the loop variable staying where the text can be measured, and every step
\* lowers a variant that stays non-negative), the returned size lies in
\* [minSize, maxSize], and the text measured at it fits both allowed
\* dimensions unless it is minSize
C2_TerminatesInRange ==
    /\ [](EstVariant >= 0)
    /\ [](epc \in {"start", "loop", "done"})
    /\ [](epc = "loop" => new_size >= min_font_size - 1 /\ new_size <= max_font_size)
    /\ [][EstVariant' < EstVariant]_vars
    /\ [](epc = "done" =>
            /\ min_font_size <= chosen.size
            /\ chosen.size <= max_font_size
            /\ chosen.w = oracle[chosen.size].w
            /\ chosen.h = oracle[chosen.size].h
            /\ (FitsAt(chosen.size) \/ chosen.size = min_font_size))

\* the floor exception: nothing down to the floor fitted
C2_Witness ==
    /\ epc = "done"
    /\ min_font_size < max_font_size
    /\ new_size < min_font_size
    /\ chosen.size = min_font_size
    /\ ~FitsAt(chosen.size)

\* C3 as stated: for a monotone measurer no size of the range larger than the
\* returned one fits
C3_LargestFitting ==
    (epc = "done" /\ Monotone) =>
        \A s \in DOMAIN oracle : FitsAt(s) => s <= chosen.size

\* C3 amended: the maximum if it fits, else the largest fitting size at or below
\* the scaled candidate
C3_LargestBelowCandidate ==
    epc = "done" =>
        IF FitsAt(max_font_size)
        THEN chosen.size = max_font_size
        ELSE LET cand == EstCandidate(oracle[max_font_size])
             IN  /\ chosen.size <= cand
                 /\ \A s \in min_font_size..cand : FitsAt(s) => s <= chosen.size

\* the loop stepped down from a candidate that did not fit to a size that does
C3_Witness ==
    /\ epc = "done"
    /\ ~FitsAt(max_font_size)
    /\ chosen.size < EstCandidate(oracle[max_font_size])
    /\ FitsAt(chosen.size)

(***************************************************************************)
(* render_text_svg_to_image(text, font_path, font_size, fill, box_w, box_h)*)
(*                                                                         *)
(* draw.textbbox((0,0), ...) is the box (l, t, l + w, t + h) of the ink    *)
(* relative to the draw origin; draw.text((x, y), ...) puts the same ink   *)
(* at that box moved by (x, y).  The cairosvg result is the box-sized      *)
(* image the SVG declares; where its ink lies is the backend's business.   *)
(***************************************************************************)
textbbox(font_size) ==
    [left   |-> origin.l,
     top    |-> origin.t,
     right  |-> origin.l + oracle[font_size].w,
     bottom |-> origin.t + oracle[font_size].h]

render_text_svg_to_image(font_size, box_w, box_h) ==
    IF ~CAIROSVG_AVAILABLE
    THEN LET bbox   == textbbox(font_size)
             text_w == bbox.right - bbox.left
             text_h == bbox.bottom - bbox.top
             x      == (box_w - text_w) \div 2
             y      == (box_h - text_h) \div 2
         IN  [backend |-> "pil",
              size    |-> [w |-> box_w, h |-> box_h],
              ink     |-> [left  |-> x + bbox.left,  top    |-> y + bbox.top,
                           right |-> x + bbox.right, bottom |-> y + bbox.bottom]]
    ELSE [backend |-> "svg", size |-> [w |-> box_w, h |-> box_h]]

(***************************************************************************)
(* The renderer on its own: any measured box and offset at the font size,  *)
(* any box, either backend.                                                *)
(***************************************************************************)
InitRender ==
    /\ min_font_size = 1
    /\ max_font_size = 1
    /\ oracle \in [1..1 -> [w : 0..MaxTextW, h : 0..MaxTextH]]
    /\ origin \in [l : 0..MaxOffset, t : 0..MaxOffset]
    /\ box \in [w : 1..MaxTextW, h : 1..MaxTextH]
    /\ allowed = box
    /\ epc = "done"
    /\ new_size = 0
    /\ chosen = Return(1)
    /\ CAIROSVG_AVAILABLE \in BOOLEAN
    /\ NoRender
    /\ template_exists = TRUE
    /\ metrics = [adv |-> 0, bearing |-> 0]
    /\ IdleFit /\ IdleInputs /\ IdleGen

RenderApply ==
    /\ rendered.backend = "none"
    /\ rendered' = render_text_svg_to_image(chosen.size, box.w, box.h)
    /\ UNCHANGED <<box, fitVars, fontVars, inputVars, envVars, genVars>>

NextRender == RenderApply

SpecRender == InitRender /\ [][NextRender]_vars

\* C10: in the raster fallback a text whose measured box fits the box is drawn
\* centred: left and right margins differ by at most 1, top and bottom likewise
C10_FallbackCentred ==
    (rendered.backend = "pil" /\ Fits(oracle[chosen.size])) =>
        LET marginL == rendered.ink.left
            marginR == box.w - rendered.ink.right
            marginT == rendered.ink.top
            marginB == box.h - rendered.ink.bottom
        IN  /\ marginL - marginR <= 1 /\ marginR - marginL <= 1
            /\ marginT - marginB <= 1 /\ marginB - marginT <= 1

(***************************************************************************)
(* Text.  A string is a sequence of code points.                           *)
(***************************************************************************)
NAME_FONT_EN == "assets/Poppins-SemiBold.ttf"
NAME_FONT_HI == "assets/NotoSansDevanagari-SemiBold.ttf"
DESG_FONT_EN == "assets/Poppins-Medium.ttf"
DESG_FONT_HI == "assets/NotoSansDevanagari-Medium.ttf"

\* the bracket expression of r"[A-Za-z0-9 .,'’\-]+", item by item
CharClass ==
    << <<65, 90>>, <<97, 122>>, <<48, 57>>, <<32, 32>>, <<46, 46>>, <<44, 44>>,
       <<39, 39>>, <<8217, 8217>>, <<45, 45>> >>

InClass(c) == \E i \in DOMAIN CharClass : CharClass[i][1] <= c /\ c <= CharClass[i][2]

\* how many characters the "+" takes from position i on
RECURSIVE MatchPlus(_, _)
MatchPlus(s, i) ==
    IF i <= Len(s) /\ InClass(s[i]) THEN 1 + MatchPlus(s, i + 1) ELSE 0

\* re.match in place of re.fullmatch: the pattern matches a prefix
is_english_prefix(t) == MatchPlus(t, 1) >= 1

\* re.fullmatch(...) is not None: one or more class characters, up to the end
is_english_text(t) == MatchPlus(t, 1) >= 1 /\ MatchPlus(t, 1) = Len(t)

\* lines 225-226
select_fonts ==
    /\ name_font_path' = IF is_english_text(name_text) THEN NAME_FONT_EN ELSE NAME_FONT_HI
    /\ desg_font_path' = IF is_english_text(designation_text) THEN DESG_FONT_EN ELSE DESG_FONT_HI

RECURSIVE StringsUpTo(_, _)
StringsUpTo(chars, n) ==
    IF n = 0 THEN {<<>>}
    ELSE LET shorter == StringsUpTo(chars, n - 1)
         IN  shorter \cup {Append(t, c) : t \in shorter, c \in chars}

(***************************************************************************)
(* The classifier on its own: A z 0 space . , ' U+2019 - and, outside the  *)
(* class, @ [ and DEVANAGARI KA for the name; b, space and DEVANAGARI DA   *)
(* for the designation.                                                    *)
(***************************************************************************)
NameChars == {65, 122, 48, 32, 46, 44, 39, 8217, 45, 64, 91, 2325}
DesgChars == {98, 32, 2342}

InitLang ==
    /\ name_text \in StringsUpTo(NameChars, MaxTextLen)
    /\ designation_text \in StringsUpTo(DesgChars, MaxTextLen)
    /\ uploaded_file = NoFile
    /\ IdleGen
    /\ IdleFit /\ IdleFont /\ IdleRender /\ IdleEnv

SelectFontsApply ==
    /\ name_font_path = "unset"
    /\ select_fonts
    /\ UNCHANGED <<gpc, field, log, layers, ui>>
    /\ UNCHANGED <<fitVars, fontVars, renderVars, inputVars, envVars>>

NextLang == SelectFontsApply

SpecLang == InitLang /\ [][NextLang]_vars

\* the characters the classification is stated over
LatinLetters == (65..90) \cup (97..122)
Digits == 48..57
SimpleScript == LatinLetters \cup Digits \cup {32, 46, 44, 39, 8217, 45}

AllSimple(t) == \A i \in 1..Len(t) : t[i] \in SimpleScript

SLOT_X == 330
SLOT_Y == 210
SLOT_W == 420
SLOT_H == 470

\* (x1, x2, y1, y2)
NAME_BOX == <<285, 795, 705, 785>>
DESG_BOX == <<357, 722, 807, 855>>

DefaultMinFontSize == 6

\* the arguments of the two paste_svg_text_box calls
TextCall ==
    [name |-> [box |-> NAME_BOX, max_font_size |-> 56],
     desg |-> [box |-> DESG_BOX, max_font_size |-> 30]]

\* str.isspace
IsSpace(c) ==
    c \in {9, 10, 11, 12, 13, 28, 29, 30, 31, 32, 133, 160, 5760,
           8232, 8233, 8239, 8287, 12288} \cup (8192..8202)

RECURSIVE LStrip(_)
LStrip(t) == IF t # <<>> /\ IsSpace(Head(t)) THEN LStrip(Tail(t)) ELSE t

RECURSIVE RStrip(_)
RStrip(t) == IF t # <<>> /\ IsSpace(t[Len(t)]) THEN RStrip(SubSeq(t, 1, Len(t) - 1)) ELSE t

\* a strip that strips nothing
strip_nothing(t) == t

\* str.strip()
strip(t) == RStrip(LStrip(t))

\* what Pillow measures for a text at a size with the fonts installed: an
\* advance per character and size unit, a side bearing, a line height
Measure(t, size) ==
    [w |-> Len(t) * size * metrics.adv + metrics.bearing, h |-> size + size \div 4]

Error(msg) == [kind |-> "error", text |-> msg]

\* lines 197-205: the button is pressed, the inputs are validated
GenValidate ==
    /\ gpc = "idle"
    /\ IF ~uploaded_file.given
       THEN ui' = Append(ui, Error("Please upload a photo.")) /\ gpc' = "done"
       ELSE IF strip(name_text) = <<>>
       THEN ui' = Append(ui, Error("Please enter a name.")) /\ gpc' = "done"
       ELSE IF strip(designation_text) = <<>>
       THEN ui' = Append(ui, Error("Please enter a designation.")) /\ gpc' = "done"
       ELSE gpc' = "check" /\ UNCHANGED ui
    /\ UNCHANGED <<field, name_font_path, desg_font_path, log, layers>>
    /\ UNCHANGED <<fitVars, fontVars, renderVars, inputVars, envVars>>

\* lines 206-207: os.path.exists(TEMPLATE_PATH)
GenCheckTemplate ==
    /\ gpc = "check"
    /\ log' = Append(log, "path_exists")
    /\ IF ~template_exists
       THEN ui' = Append(ui, Error("ID card template not found: assets/template.png"))
            /\ gpc' = "done"
       ELSE gpc' = "template" /\ UNCHANGED ui
    /\ UNCHANGED <<field, name_font_path, desg_font_path, layers>>
    /\ UNCHANGED <<fitVars, fontVars, renderVars, inputVars, envVars>>

\* line 210: the template is read
GenOpenTemplate ==
    /\ gpc = "template"
    /\ log' = Append(log, "open_template")
    /\ gpc' = "photo"
    /\ UNCHANGED <<field, name_font_path, desg_font_path, layers, ui>>
    /\ UNCHANGED <<fitVars, fontVars, renderVars, inputVars, envVars>>

\* lines 213-215: the photo is decoded (an undecodable upload raises), turned
\* upright and converted; it and the slot are the arguments of the fit
GenOpenPhoto ==
    /\ gpc = "photo"
    /\ log' = Append(log, "open_photo")
    /\ IF ~uploaded_file.valid
       THEN /\ ui' = Append(ui, [kind |-> "exception", text |-> "UnidentifiedImageError"])
            /\ gpc' = "aborted"
            /\ UNCHANGED <<img, frame>>
       ELSE /\ img' = [w |-> uploaded_file.w, h |-> uploaded_file.h]
            /\ frame' = [w |-> SLOT_W, h |-> SLOT_H]
            /\ gpc' = "fit"
            /\ UNCHANGED ui
    /\ UNCHANGED <<applied, original, resized, crop>>
    /\ UNCHANGED <<field, name_font_path, desg_font_path, layers>>
    /\ UNCHANGED <<fontVars, renderVars, inputVars, envVars>>

\* line 218
GenFit ==
    /\ gpc = "fit"
    /\ fit_image_to_frame
    /\ applied' = applied + 1
    /\ log' = Append(log, "fit")
    /\ gpc' = "canvas"
    /\ UNCHANGED <<field, name_font_path, desg_font_path, layers, ui>>
    /\ UNCHANGED <<fontVars, renderVars, inputVars, envVars>>

\* line 219: a transparent canvas of the template's size
GenCanvas ==
    /\ gpc = "canvas"
    /\ layers' = <<[kind |-> "canvas", of |-> "id_card.size"]>>
    /\ log' = Append(log, "new_canvas")
    /\ gpc' = "paste_photo"
    /\ UNCHANGED <<field, name_font_path, desg_font_path, ui>>
    /\ UNCHANGED <<fitVars, fontVars, renderVars, inputVars, envVars>>

\* line 220
GenPastePhoto ==
    /\ gpc = "paste_photo"
    /\ layers' = Append(layers, [kind |-> "photo", at |-> <<SLOT_X, SLOT_Y>>, size |-> img])
    /\ log' = Append(log, "paste_photo")
    /\ gpc' = "composite"
    /\ UNCHANGED <<field, name_font_path, desg_font_path, ui>>
    /\ UNCHANGED <<fitVars, fontVars, renderVars, inputVars, envVars>>

\* alpha_composite with its arguments exchanged: the template goes underneath
GenCompositeSwapped ==
    /\ gpc = "composite"
    /\ layers' = <<[kind |-> "template", at |-> <<0, 0>>]>> \o layers
    /\ log' = Append(log, "alpha_composite")
    /\ gpc' = "fonts"
    /\ UNCHANGED <<field, name_font_path, desg_font_path, ui>>
    /\ UNCHANGED <<fitVars, fontVars, renderVars, inputVars, envVars>>

\* line 222: the template is composited over the canvas
GenComposite ==
    /\ gpc = "composite"
    /\ layers' = Append(layers, [kind |-> "template", at |-> <<0, 0>>])
    /\ log' = Append(log, "alpha_composite")
    /\ gpc' = "fonts"
    /\ UNCHANGED <<field, name_font_path, desg_font_path, ui>>
    /\ UNCHANGED <<fitVars, fontVars, renderVars, inputVars, envVars>>

\* lines 224-226
GenSelectFonts ==
    /\ gpc = "fonts"
    /\ select_fonts
    /\ gpc' = "name"
    /\ UNCHANGED <<field, log, layers, ui>>
    /\ UNCHANGED <<fitVars, fontVars, renderVars, inputVars, envVars>>

\* lines 229-239 and 242-252 with 171-175: paste_svg_text_box is entered and
\* calls estimate_font_size_pil with the box's width and height
GenCallPaste ==
    /\ gpc \in {"name", "desg"}
    /\ field' = gpc
    /\ LET call == TextCall[gpc]
           t    == IF gpc = "name" THEN name_text ELSE designation_text
           dims == [w |-> call.box[2] - call.box[1], h |-> call.box[4] - call.box[3]]
       IN  /\ allowed' = dims
           /\ box' = dims
           /\ max_font_size' = call.max_font_size
           /\ min_font_size' = DefaultMinFontSize
           /\ oracle' = [size \in DefaultMinFontSize..call.max_font_size |-> Measure(t, size)]
    /\ epc' = "start"
    /\ new_size' = 0
    /\ chosen' = [size |-> 0, w |-> 0, h |-> 0]
    /\ rendered' = [backend |-> "none"]
    /\ gpc' = "estimate"
    /\ UNCHANGED <<origin, name_font_path, desg_font_path, log, layers, ui>>
    /\ UNCHANGED <<fitVars, inputVars, envVars>>

\* a renderer without the fallback: cairosvg is used though it was not imported
GenRenderNoFallback ==
    /\ gpc = "estimate"
    /\ epc = "done"
    /\ log' = Append(log, "render_text")
    /\ IF ~CAIROSVG_AVAILABLE
       THEN /\ ui' = Append(ui, [kind |-> "exception", text |-> "NameError"])
            /\ gpc' = "aborted"
            /\ UNCHANGED rendered
       ELSE /\ rendered' = render_text_svg_to_image(chosen.size, box.w, box.h)
            /\ gpc' = "paste"
            /\ UNCHANGED ui
    /\ UNCHANGED <<box, field, name_font_path, desg_font_path, layers>>
    /\ UNCHANGED <<fitVars, fontVars, inputVars, envVars>>

\* lines 177-179: the text is rendered at the chosen size
GenRender ==
    /\ gpc = "estimate"
    /\ epc = "done"
    /\ rendered' = render_text_svg_to_image(chosen.size, box.w, box.h)
    /\ log' = Append(log, "render_text")
    /\ gpc' = "paste"
    /\ UNCHANGED <<box, field, name_font_path, desg_font_path, layers, ui>>
    /\ UNCHANGED <<fitVars, fontVars, inputVars, envVars>>

\* lines 181-183: the rendered text is pasted at the box's top-left corner
GenPasteText ==
    /\ gpc = "paste"
    /\ layers' = Append(layers,
                    [kind |-> "text", field |-> field,
                     at |-> <<TextCall[field].box[1], TextCall[field].box[3]>>,
                     size |-> rendered.size, backend |-> rendered.backend])
    /\ log' = Append(log, "paste_text")
    /\ gpc' = IF field = "name" THEN "desg" ELSE "preview"
    /\ UNCHANGED <<field, name_font_path, desg_font_path, ui>>
    /\ UNCHANGED <<fitVars, fontVars, renderVars, inputVars, envVars>>

\* line 255
GenPreview ==
    /\ gpc = "preview"
    /\ ui' = Append(ui, [kind |-> "image", text |-> "Generated ID Card"])
    /\ gpc' = "export"
    /\ UNCHANGED <<field, name_font_path, desg_font_path, log, layers>>
    /\ UNCHANGED <<fitVars, fontVars, renderVars, inputVars, envVars>>

\* lines 257-261
GenExport ==
    /\ gpc = "export"
    /\ log' = Append(log, "save_png")
    /\ ui' = Append(ui, [kind |-> "download_button", text |-> "final_id_card.png"])
    /\ gpc' = "warn"
    /\ UNCHANGED <<field, name_font_path, desg_font_path, layers>>
    /\ UNCHANGED <<fitVars, fontVars, renderVars, inputVars, envVars>>

\* lines 263-264
GenWarn ==
    /\ gpc = "warn"
    /\ IF ~CAIROSVG_AVAILABLE
       THEN ui' = Append(ui, [kind |-> "warning", text |-> "Note: cairosvg is not installed"])
       ELSE UNCHANGED ui
    /\ gpc' = "done"
    /\ UNCHANGED <<field, name_font_path, desg_font_path, log, layers>>
    /\ UNCHANGED <<fitVars, fontVars, renderVars, inputVars, envVars>>

(***************************************************************************)
(* One press of the button: any upload (none, a photo, undecodable bytes), *)
(* any two texts over A, space and DEVANAGARI KA, template present or not, *)
(* cairosvg importable or not, three sets of font metrics.                 *)
(***************************************************************************)
Uploads ==
    {NoFile,
     [given |-> TRUE, valid |-> FALSE, w |-> 0, h |-> 0],
     [given |-> TRUE, valid |-> TRUE, w |-> 300, h |-> 400],
     [given |-> TRUE, valid |-> TRUE, w |-> 1000, h |-> 500]}

InputChars == {65, 32, 2325}

Metrics ==
    {[adv |-> 1, bearing |-> 0], [adv |-> 12, bearing |-> 40], [adv |-> 100, bearing |-> 0]}

InitGen ==
    /\ uploaded_file \in Uploads
    /\ name_text \in StringsUpTo(InputChars, MaxInputLen)
    /\ designation_text \in StringsUpTo(InputChars, MaxInputLen)
    /\ template_exists \in BOOLEAN
    /\ CAIROSVG_AVAILABLE \in BOOLEAN
    /\ metrics \in Metrics
    /\ IdleGen
    /\ IdleFit /\ IdleFont /\ IdleRender

NextGen ==
    \/ GenValidate
    \/ GenCheckTemplate
    \/ GenOpenTemplate
    \/ GenOpenPhoto
    \/ GenFit
    \/ GenCanvas
    \/ GenPastePhoto
    \/ GenComposite
    \/ GenSelectFonts
    \/ GenCallPaste
    \/ EstStart
    \/ EstLoop
    \/ EstFallback
    \/ GenRender
    \/ GenPasteText
    \/ GenPreview
    \/ GenExport
    \/ GenWarn

SpecGen == InitGen /\ [][NextGen]_vars

\* empty or whitespace-only
Blank(t) == \A i \in 1..Len(t) : IsSpace(t[i])

MissingInput == ~uploaded_file.given \/ Blank(name_text) \/ Blank(designation_text)

\* C4: with no photo, or a name or designation that is empty or whitespace-only,
\* the press reports one error and does no image processing: no template check
\* or read, no photo decode, no fit, no composite, no text render, no export
C4_RejectedBeforeProcessing ==
    MissingInput =>
        /\ log = <<>>
        /\ layers = <<>>
        /\ applied = 0
        /\ epc = "idle"
        /\ rendered.backend = "none"
        /\ gpc \in {"idle", "done"}
        /\ gpc = "idle" => ui = <<>>
        /\ gpc = "done" => Len(ui) = 1 /\ ui[1].kind = "error"

\* a photo and a whitespace-only name: rejected
C4_Witness ==
    /\ gpc = "done"
    /\ uploaded_file.given
    /\ name_text # <<>>
    /\ Blank(name_text)
    /\ ui = <<Error("Please enter a name.")>>

IsPrefix(a, b) == Len(a) <= Len(b) /\ a = SubSeq(b, 1, Len(a))

PipelineOrder ==
    <<"path_exists", "open_template", "open_photo", "fit", "new_canvas", "paste_photo",
      "alpha_composite", "render_text", "paste_text", "render_text", "paste_text",
      "save_png">>

LayerOrder == <<"canvas", "photo", "template", "text", "text">>

\* C5: the steps of a run happen in the order fit, canvas, photo paste at the
\* slot's top-left, template composite, name text, designation text; the
\* composite is, bottom to top, canvas, photo, template, name, designation, so
\* no text is ever under the photo or the frame
C5_CompositeOrder ==
    /\ IsPrefix(log, PipelineOrder)
    /\ IsPrefix([i \in 1..Len(layers) |-> layers[i].kind], LayerOrder)
    /\ Len(layers) >= 2 => layers[2].at = <<SLOT_X, SLOT_Y>> /\ layers[2].size = frame
    /\ Len(layers) >= 4 => layers[4].field = "name" /\ layers[4].at = <<NAME_BOX[1], NAME_BOX[3]>>
    /\ Len(layers) >= 5 => layers[5].field = "desg" /\ layers[5].at = <<DESG_BOX[1], DESG_BOX[3]>>

\* a finished run with all five layers
C5_Witness ==
    /\ gpc = "done"
    /\ Len(layers) = 5
    /\ log = PipelineOrder

\* valid inputs, the template present, cairosvg not importable
Degraded ==
    /\ ~CAIROSVG_AVAILABLE
    /\ uploaded_file.given
    /\ uploaded_file.valid
    /\ ~Blank(name_text)
    /\ ~Blank(designation_text)
    /\ template_exists

\* statements left before the handler ends, at most
GenRank ==
    CASE gpc = "idle" -> 18
      [] gpc = "check" -> 17
      [] gpc = "template" -> 16
      [] gpc = "photo" -> 15
      [] gpc = "fit" -> 14
      [] gpc = "canvas" -> 13
      [] gpc = "paste_photo" -> 12
      [] gpc = "composite" -> 11
      [] gpc = "fonts" -> 10
      [] gpc = "name" -> 9
      [] gpc = "estimate" /\ field = "name" -> 8
      [] gpc = "paste" /\ field = "name" -> 7
      [] gpc = "desg" -> 6
      [] gpc = "estimate" /\ field = "desg" -> 5
      [] gpc = "paste" /\ field = "desg" -> 4
      [] gpc = "preview" -> 3
      [] gpc = "export" -> 2
      [] gpc = "warn" -> 1
      [] OTHER -> 0

\* a statement counts 100 steps, more than a size search takes
GenVariant == GenRank * 100 + (IF gpc = "estimate" THEN EstVariant ELSE 0)

\* C6: without cairosvg a run on valid inputs and present assets is never
\* aborted and reports no error, it goes on to its end (every step lowers a
\* non-negative variant and the size search inside it stays at a step that can
\* run), and at the end both texts were rendered by the raster fallback and the
\* page shows the image, the download button and the warning
C6_FallbackCompletes ==
    /\ [](Degraded =>
            /\ gpc # "aborted"
            /\ \A i \in 1..Len(ui) : ui[i].kind \notin {"error", "exception"})
    /\ [](GenVariant >= 0)
    /\ [](gpc = "estimate" =>
            /\ epc \in {"start", "loop", "done"}
            /\ epc = "loop" => new_size >= min_font_size - 1 /\ new_size <= max_font_size)
    /\ [][GenVariant' < GenVariant]_vars
    /\ []((Degraded /\ gpc = "done") =>
            /\ Len(layers) = 5
            /\ layers[4].backend = "pil"
            /\ layers[5].backend = "pil"
            /\ [i \in 1..Len(ui) |-> ui[i].kind] = <<"image", "download_button", "warning">>)
    /\ []((Degraded /\ GenVariant = 0) => gpc = "done")

\* a finished run without cairosvg whose designation has a Devanagari character
C6_Witness ==
    /\ Degraded
    /\ gpc = "done"
    /\ \E i \in 1..Len(designation_text) : designation_text[i] = 2325
    /\ desg_font_path = DESG_FONT_HI
    /\ ui[Len(ui)].kind = "warning"
====
